---- MODULE Spec2Model ----
(***************************************************************************)
(* The chat client of the restaurant finder (RestaurantFinderPage): its    *)
(* React state, the event handlers that change it, and the turns that are  *)
(* in flight between a submission and its response.                        *)
(*                                                                         *)
(* A handler runs to its first await as one step and React re-renders      *)
(* before the next event, so every event sees the state the previous step  *)
(* left.  What an async handler reads after an await is what its closure   *)
(* captured when it was called; a turn in flight carries those captured    *)
(* values.  The backend is not part of the client: its answers are drawn   *)
(* from a small set of responses.  The pipeline behind those answers is    *)
(* modelled on its own, from its specification, in a second part.          *)
(*                                                                         *)
(* Further parts, each with its own variables and its own specification:   *)
(* the map in its iframe, the conversations in localStorage, the voice     *)
(* playback of a response, and App with the auth screens.  The page only   *)
(* writes to localStorage while it lives, so the specification of the      *)
(* client leaves the stored value aside and the one of the storage adds    *)
(* the save effect to every step of the page.                              *)
(*                                                                         *)
(* Values are written as their JSON text: "null", "undefined", "5", "thai".*)
(* Conversation indices are 1-based here and 0-based in the source.        *)
(***************************************************************************)
EXTENDS Integers, Sequences, FiniteSets, TLC

\* Bounds of the model.
MaxTurns == 2
MaxConversations == 2

Null == "null"
Undefined == "undefined"
DefaultDistance == "5"

Fields == {"cuisine", "price_level", "rating", "distance", "dietary", "sort_by"}

\* What the text input can hold: empty, whitespace only, a query.
Texts == {"", " ", "pizza"}

\* String.prototype.trim on Texts.
Trim(t) == IF t = " " THEN "" ELSE t

Truthy(v) == v \notin {Null, Undefined}

\* useState initial value of activeFilters.
InitialActiveFilters ==
    [cuisine |-> Null, price_level |-> Null, rating |-> Null,
     distance |-> DefaultDistance, dietary |-> {}, sort_by |-> Null]

\* The literal handleClearAllFilters sets.
ClearedFiltersNoDistance ==
    [cuisine |-> Null, price_level |-> Null, rating |-> Null,
     distance |-> Undefined, dietary |-> {}, sort_by |-> Null]

ClearedFilters ==
    [cuisine |-> Null, price_level |-> Null, rating |-> Null,
     distance |-> DefaultDistance, dietary |-> {}, sort_by |-> Null]

EmptyConversation == [messages |-> <<>>, restaurants |-> <<>>, sessionId |-> Null]

\* loadConversationsFromStorage with nothing stored.
InitialConversations == <<EmptyConversation>>

(***************************************************************************)
(* The backend's answers.  filter_state is absent, or carries a filters    *)
(* object: one with every key missing, or one with a cuisine and a dietary *)
(* tag.  restaurants is absent or a list.                                   *)
(***************************************************************************)
NoFilterState == [present |-> FALSE]

EmptyFilters ==
    [present |-> TRUE,
     filters |-> [cuisine |-> Undefined, price_level |-> Undefined,
                  rating |-> Undefined, distance |-> Undefined,
                  dietary |-> [present |-> FALSE], sort_by |-> Undefined]]

CuisineFilters ==
    [present |-> TRUE,
     filters |-> [cuisine |-> "thai", price_level |-> Null, rating |-> Null,
                  distance |-> "5",
                  dietary |-> [present |-> TRUE, tags |-> {"vegan"}],
                  sort_by |-> Null]]

Responses ==
    { [kind |-> "success", restaurants |-> [present |-> TRUE, list |-> <<"v1", "v2">>],
       filter_state |-> NoFilterState],
      [kind |-> "success", restaurants |-> [present |-> TRUE, list |-> <<"v1">>],
       filter_state |-> CuisineFilters],
      [kind |-> "success", restaurants |-> [present |-> FALSE],
       filter_state |-> EmptyFilters],
      [kind |-> "error"],
      [kind |-> "network"] }

VARIABLES
    conversations,             \* useState: list of {messages, restaurants, sessionId}
    currentConversationIndex,  \* useState
    inputText,                 \* useState
    loading,                   \* useState
    activeFilters,             \* useState
    isProcessingVoice,         \* useState
    inflight,                  \* calls of handleSend that are past their first await
    sent,                      \* number of requests issued so far
    nextSid,                   \* backend: number of the next session id to issue
    filtersSetBy               \* history: the call site that last set activeFilters

vars == <<conversations, currentConversationIndex, inputText, loading, activeFilters,
          isProcessingVoice, inflight, sent, nextSid, filtersSetBy>>

currentConversation == conversations[currentConversationIndex]

messages == currentConversation.messages

RECURSIVE AllRestaurantsDedup(_)
AllRestaurantsDedup(msgs) ==
    IF msgs = <<>> THEN <<>>
    ELSE LET acc == AllRestaurantsDedup(SubSeq(msgs, 1, Len(msgs) - 1))
             new == msgs[Len(msgs)].restaurants
         IN  acc \o SelectSeq(new, LAMBDA v : \A i \in DOMAIN acc : acc[i] # v)

\* messages.reduce(...): every message's restaurants, in message order.
RECURSIVE AllRestaurants(_)
AllRestaurants(msgs) ==
    IF msgs = <<>> THEN <<>>
    ELSE LET acc == AllRestaurants(SubSeq(msgs, 1, Len(msgs) - 1))
             last == msgs[Len(msgs)]
         IN  IF Len(last.restaurants) > 0 THEN acc \o last.restaurants ELSE acc

StartingIndexZero(msgs, index) == 0

\* messages.slice(0, index).reduce((count, msg) => count + (msg.restaurants?.length || 0), 0),
\* for the message at place index (counted from 1).
RECURSIVE StartingIndex(_, _)
StartingIndex(msgs, index) ==
    IF index <= 1 THEN 0
    ELSE StartingIndex(msgs, index - 1) + Len(msgs[index - 1].restaurants)

\* The cards ChatMessage renders for a message: none for a user message.
Cards(message) == IF message.role = "user" THEN <<>> ELSE message.restaurants

\* The number on the k-th card of a message: startingIndex + index + 1.
CardNumber(msgs, index, k) == StartingIndex(msgs, index) + (k - 1) + 1

\* The label of the marker initMap makes for the i-th restaurant it is given:
\* markerNumber = index + 1.
MarkerNumber(i) == (i - 1) + 1

Init ==
    /\ conversations = InitialConversations
    /\ currentConversationIndex = 1
    /\ inputText = ""
    /\ loading = FALSE
    /\ activeFilters = InitialActiveFilters
    /\ isProcessingVoice = FALSE
    /\ inflight = {}
    /\ sent = 0
    /\ nextSid = 1
    /\ filtersSetBy = "init"

(***************************************************************************)
(* handleSend                                                              *)
(***************************************************************************)
CanSendBlank(text, isLoading) == ~isLoading

CanSendIgnoringLoading(text, isLoading) == Trim(text) # ""

\* The guard: if (!inputText.trim() || loading) return.
CanSend(text, isLoading) == Trim(text) # "" /\ ~isLoading

LoadingNotSet == FALSE

\* setLoading(true) before the request.
LoadingAfterSubmit == TRUE

UserMessage(text) == [role |-> "user", content |-> text, restaurants |-> <<>>]

\* What the closure of one handleSend call holds after its first await.
Request(filters, voiceMode) ==
    [id |-> sent + 1,
     pc |-> "fetch",
     idx |-> currentConversationIndex,
     conversation |-> currentConversation,
     query |-> inputText,
     session_id |-> currentConversation.sessionId,
     active_filters |-> filters,
     voiceMode |-> voiceMode]

\* handleSend up to its first await, called from a render whose activeFilters
\* is `filters`.  It reads no argument: the query is inputText.  The voice-mode
\* switch of the preferences sidebar can be flipped at any time: its position
\* at the call is an input.
HandleSend(filters) ==
    IF CanSend(inputText, loading)
    THEN \E voiceMode \in BOOLEAN :
         /\ sent < MaxTurns
         /\ inputText' = ""
         /\ loading' = LoadingAfterSubmit
         /\ conversations' =
                [conversations EXCEPT ![currentConversationIndex].messages =
                    Append(@, UserMessage(inputText))]
         /\ inflight' = inflight \cup {Request(filters, voiceMode)}
         /\ sent' = sent + 1
    ELSE UNCHANGED <<inputText, loading, conversations, inflight, sent>>

\* The text input and the send icon are disabled while loading or transcribing.
InputEnabled == ~loading /\ ~isProcessingVoice

SubmitEditing ==
    /\ InputEnabled
    /\ HandleSend(activeFilters)
    /\ UNCHANGED <<currentConversationIndex, activeFilters, isProcessingVoice, nextSid, filtersSetBy>>

ChangeText(t) ==
    /\ InputEnabled
    /\ t # inputText
    /\ inputText' = t
    /\ UNCHANGED <<conversations, currentConversationIndex, loading, activeFilters,
                   isProcessingVoice, inflight, sent, nextSid, filtersSetBy>>

(***************************************************************************)
(* The response: handleSend after its awaits                               *)
(***************************************************************************)
\* The session id of a response: a fresh one for a request that carried none,
\* the request's own otherwise.
IssueSessionId(requestSid) ==
    IF requestSid = Null THEN ToString(nextSid) ELSE requestSid

AssistantMessage(resp) ==
    [role |-> "assistant", content |-> "response",
     restaurants |-> IF resp.restaurants.present THEN resp.restaurants.list ELSE <<>>]

ErrorMessage(resp) ==
    [role |-> "assistant",
     content |-> IF resp.kind = "error" THEN "Error" ELSE "Error connecting to server",
     restaurants |-> <<>>]

CommitSuccessOverUserMessage(prev, idx, resp, sid) ==
    IF idx \notin DOMAIN prev THEN prev
    ELSE [prev EXCEPT ![idx] =
            [messages |-> Append(SubSeq(prev[idx].messages, 1,
                                        Len(prev[idx].messages) - 1),
                                 AssistantMessage(resp)),
             restaurants |-> IF resp.restaurants.present
                             THEN resp.restaurants.list
                             ELSE prev[idx].restaurants,
             sessionId |-> sid]]

CommitSuccessKeepsSessionId(prev, idx, resp, sid) ==
    IF idx \notin DOMAIN prev THEN prev
    ELSE [prev EXCEPT ![idx] =
            [messages |-> Append(prev[idx].messages, AssistantMessage(resp)),
             restaurants |-> IF resp.restaurants.present
                             THEN resp.restaurants.list
                             ELSE prev[idx].restaurants,
             sessionId |-> prev[idx].sessionId]]

\* The updater of the success branch, applied to the conversations of that time.
CommitSuccess(prev, idx, resp, sid) ==
    IF idx \notin DOMAIN prev THEN prev
    ELSE [prev EXCEPT ![idx] =
            [messages |-> Append(prev[idx].messages, AssistantMessage(resp)),
             restaurants |-> IF resp.restaurants.present
                             THEN resp.restaurants.list
                             ELSE prev[idx].restaurants,
             sessionId |-> sid]]

CommitFailureNoSpread(prev, idx, resp) ==
    IF idx \notin DOMAIN prev THEN prev
    ELSE [prev EXCEPT ![idx] =
            [messages |-> Append(prev[idx].messages, ErrorMessage(resp)),
             restaurants |-> <<>>,
             sessionId |-> Undefined]]

\* The updater of the two failure branches.
CommitFailure(prev, idx, resp) ==
    IF idx \notin DOMAIN prev THEN prev
    ELSE [prev EXCEPT ![idx].messages = Append(@, ErrorMessage(resp))]

\* setActiveFilters({...}) from data.filter_state.filters.
FiltersFromResponse(f) ==
    [cuisine |-> f.cuisine, price_level |-> f.price_level, rating |-> f.rating,
     distance |-> f.distance,
     dietary |-> IF f.dietary.present THEN f.dietary.tags ELSE {},
     sort_by |-> f.sort_by]

CommitIndexOnScreen(r) == currentConversationIndex

\* The place the updaters write to: the currentConversationIndex of the render
\* handleSend was called from.
CommitIndex(r) == r.idx

\* finally { setLoading(false) }: the call is over.
Finally(r) ==
    /\ loading' = FALSE
    /\ inflight' = inflight \ {r}

RespondSuccess(r, resp) ==
    /\ r \in inflight /\ r.pc = "fetch"
    /\ resp \in Responses /\ resp.kind = "success"
    /\ conversations' =
           CommitSuccess(conversations, CommitIndex(r), resp,
                         IssueSessionId(r.session_id))
    /\ nextSid' = IF r.session_id = Null THEN nextSid + 1 ELSE nextSid
    /\ IF resp.filter_state.present
       THEN /\ activeFilters' = FiltersFromResponse(resp.filter_state.filters)
            /\ filtersSetBy' = "response"
       ELSE UNCHANGED <<activeFilters, filtersSetBy>>
    /\ IF r.voiceMode
       THEN /\ inflight' = (inflight \ {r}) \cup {[r EXCEPT !.pc = "voice"]}
            /\ UNCHANGED loading
       ELSE Finally(r)
    /\ UNCHANGED <<currentConversationIndex, inputText, isProcessingVoice, sent>>

\* data.success is false, or fetch / response.json() threw.
RespondFailure(r, resp) ==
    /\ r \in inflight /\ r.pc = "fetch"
    /\ resp \in Responses /\ resp.kind # "success"
    /\ conversations' = CommitFailure(conversations, CommitIndex(r), resp)
    /\ Finally(r)
    /\ UNCHANGED <<currentConversationIndex, inputText, activeFilters, isProcessingVoice, sent, nextSid, filtersSetBy>>

\* await playTextAsVoice(data.response) returns.
FinishVoice(r) ==
    /\ r \in inflight /\ r.pc = "voice"
    /\ Finally(r)
    /\ UNCHANGED <<conversations, currentConversationIndex, inputText, activeFilters,
                   isProcessingVoice, sent, nextSid, filtersSetBy>>

(***************************************************************************)
(* Conversations                                                           *)
(***************************************************************************)
HandleNewConversation ==
    /\ Len(conversations) < MaxConversations
    /\ conversations' = Append(conversations, EmptyConversation)
    /\ currentConversationIndex' = Len(conversations) + 1
    /\ UNCHANGED <<inputText, loading, activeFilters, isProcessingVoice,
                   inflight, sent, nextSid, filtersSetBy>>

HandlePreviousConversation ==
    /\ currentConversationIndex > 1
    /\ currentConversationIndex' = currentConversationIndex - 1
    /\ UNCHANGED <<conversations, inputText, loading, activeFilters, isProcessingVoice, inflight, sent, nextSid, filtersSetBy>>

HandleNextConversation ==
    /\ currentConversationIndex < Len(conversations)
    /\ currentConversationIndex' = currentConversationIndex + 1
    /\ UNCHANGED <<conversations, inputText, loading, activeFilters, isProcessingVoice, inflight, sent, nextSid, filtersSetBy>>

\* conversations.filter((_, index) => index !== currentConversationIndex)
WithoutConversation(convs, idx) ==
    SubSeq(convs, 1, idx - 1) \o SubSeq(convs, idx + 1, Len(convs))

HandleDeleteConversationKeepsIndex ==
    /\ ~loading
    /\ conversations' =
           IF Len(conversations) = 1 THEN <<EmptyConversation>>
           ELSE WithoutConversation(conversations, currentConversationIndex)
    /\ UNCHANGED <<currentConversationIndex, inputText, loading, activeFilters,
                   isProcessingVoice, inflight, sent, nextSid, filtersSetBy>>

\* The delete button is disabled while loading.
HandleDeleteConversation ==
    /\ ~loading
    /\ IF Len(conversations) = 1
       THEN /\ conversations' = <<EmptyConversation>>
            /\ UNCHANGED currentConversationIndex
       ELSE LET updated == WithoutConversation(conversations, currentConversationIndex)
            IN  /\ conversations' = updated
                /\ currentConversationIndex' =
                       IF currentConversationIndex > Len(updated)
                       THEN Len(updated)
                       ELSE currentConversationIndex
    /\ UNCHANGED <<inputText, loading, activeFilters, isProcessingVoice,
                   inflight, sent, nextSid, filtersSetBy>>

(***************************************************************************)
(* Filter chips                                                            *)
(***************************************************************************)
\* The condition under which the active-filters bar is rendered.
FilterBarVisible ==
    \/ Truthy(activeFilters.cuisine)
    \/ Truthy(activeFilters.price_level)
    \/ Truthy(activeFilters.rating)
    \/ activeFilters.distance # DefaultDistance
    \/ activeFilters.dietary # {}
    \/ Truthy(activeFilters.sort_by)

\* The chips that are rendered, as the arguments their onClose passes.
Chips ==
    {<<f, Null>> : f \in {g \in {"cuisine", "price_level", "rating", "sort_by"} :
                            Truthy(activeFilters[g])}}
    \cup {<<"distance", Null>> : x \in {d \in {activeFilters.distance} :
                                          d # DefaultDistance}}
    \cup {<<"dietary", d>> : d \in activeFilters.dietary}

RemoveFromFiltersDistanceNull(filters, filterType, value) ==
    IF filterType = "dietary" /\ Truthy(value)
    THEN [filters EXCEPT !.dietary = {d \in @ : d # value}]
    ELSE [filters EXCEPT ![filterType] = Null]

RemoveFromFiltersAllDietary(filters, filterType, value) ==
    IF filterType = "dietary" /\ Truthy(value)
    THEN [filters EXCEPT !.dietary = {}]
    ELSE IF filterType = "distance"
    THEN [filters EXCEPT !.distance = DefaultDistance]
    ELSE [filters EXCEPT ![filterType] = Null]

\* The copy handleRemoveFilter builds: const updated = { ...activeFilters }; ...
RemoveFromFilters(filters, filterType, value) ==
    IF filterType = "dietary" /\ Truthy(value)
    THEN [filters EXCEPT !.dietary = {d \in @ : d # value}]
    ELSE IF filterType = "distance"
    THEN [filters EXCEPT !.distance = DefaultDistance]
    ELSE [filters EXCEPT ![filterType] = Null]

\* setActiveFilters(updated); await handleSend(...): handleSend is the one of the
\* same render, so it sends the activeFilters of before the removal.
HandleRemoveFilter(filterType, value) ==
    /\ <<filterType, value>> \in Chips
    /\ activeFilters' = RemoveFromFilters(activeFilters, filterType, value)
    /\ filtersSetBy' = "remove"
    /\ HandleSend(activeFilters)
    /\ UNCHANGED <<currentConversationIndex, isProcessingVoice, nextSid>>

HandleClearAllFilters ==
    /\ FilterBarVisible
    /\ activeFilters' = ClearedFilters
    /\ filtersSetBy' = "clear"
    /\ HandleSend(activeFilters)
    /\ UNCHANGED <<currentConversationIndex, isProcessingVoice, nextSid>>

(***************************************************************************)
(* Voice                                                                   *)
(***************************************************************************)
\* The microphone button (disabled while loading or transcribing) stops a
\* recording; processVoiceInput starts.
StopRecording ==
    /\ ~loading /\ ~isProcessingVoice
    /\ isProcessingVoice' = TRUE
    /\ UNCHANGED <<conversations, currentConversationIndex, inputText, loading,
                   activeFilters, inflight, sent, nextSid, filtersSetBy>>

\* transcribeAudio returns `transcript`, or throws.
ProcessVoiceInput(transcript) ==
    /\ isProcessingVoice
    /\ inputText' = IF Trim(transcript) # "" THEN transcript ELSE inputText
    /\ isProcessingVoice' = FALSE
    /\ UNCHANGED <<conversations, currentConversationIndex, loading, activeFilters,
                   inflight, sent, nextSid, filtersSetBy>>

(***************************************************************************)
(* The recommendation pipeline behind POST /api/search, as spec.md states  *)
(* it (sections 3, 4.1, 4.3, 4.4): FilterState Merger, Candidate Cache,    *)
(* Ranking & Filtering Engine and the stages of the Orchestrator, for one  *)
(* session.  Numbers that are absent are 0, strings that are absent are    *)
(* "absent".                                                               *)
(***************************************************************************)
MaxPipelineTurns == 2

DefaultRadius == 5

ResultCap == 2

Absent == "absent"

FilterFields == {"cuisine", "price_level", "min_rating", "radius", "dietary", "sort_by"}

DefaultFilterState ==
    [cuisine |-> Absent, price_level |-> 0, min_rating |-> 0,
     radius |-> DefaultRadius, dietary |-> {}, sort_by |-> Absent]

\* The lower case of the strings of the model.
Lower(str) ==
    CASE str \in {"Thai", "THAI"} -> "thai"
      [] str \in {"Pizza", "Pizza "} -> IF str = "Pizza" THEN "pizza" ELSE "pizza "
      [] OTHER -> str

\* The normalised tokens of a free-text query: lower case, no outer blanks.
Normalize(query) == IF Lower(query) = "pizza " THEN "pizza" ELSE Lower(query)

\* The records the provider knows, as the adapter normalises them.  distance
\* is the distance from the query location; text_match the strength of the
\* match between the query and the name.
ProviderVenues ==
    { [id |-> 1, cuisine_type |-> "Thai", price_level |-> 1, rating |-> 5,
       distance |-> 3, dietary |-> {"vegan"}, text_match |-> 0],
      [id |-> 2, cuisine_type |-> "thai", price_level |-> 2, rating |-> 4,
       distance |-> 8, dietary |-> {}, text_match |-> 1],
      [id |-> 3, cuisine_type |-> "pizza", price_level |-> 3, rating |-> 4,
       distance |-> 4, dietary |-> {"vegan", "gf"}, text_match |-> 1],
      [id |-> 4, cuisine_type |-> "pizza", price_level |-> 2, rating |-> 4,
       distance |-> 4, dietary |-> {}, text_match |-> 1] }

\* What one search call can return.
SearchResults ==
    { ProviderVenues, {v \in ProviderVenues : v.id # 2}, {} }

\* The directives of the model: preference sets, removals, clear all.
SetDirective(fields) == [kind |-> "set", fields |-> fields]

RemoveDirective(field, tag) == [kind |-> "remove", field |-> field, tag |-> tag]

ClearDirective == [kind |-> "clear"]

Directives ==
    { SetDirective("price_level" :> 2),
      SetDirective(("cuisine" :> "THAI") @@ ("dietary" :> {"vegan"})),
      SetDirective(("min_rating" :> 4) @@ ("sort_by" :> "distance")),
      SetDirective(("radius" :> 10) @@ ("open_now" :> 1)),
      SetDirective("sort_by" :> "price"),
      RemoveDirective("price_level", Absent),
      RemoveDirective("dietary", "vegan"),
      RemoveDirective("radius", Absent),
      ClearDirective }

NoDirective == SetDirective("open_now" :> 1)

TurnRequests ==
    { [directive |-> d, location |-> "A", query |-> "pizza"] : d \in Directives }
    \cup { [directive |-> NoDirective, location |-> "A", query |-> "Pizza "],
           [directive |-> NoDirective, location |-> "B", query |-> "pizza"],
           [directive |-> NoDirective, location |-> "A", query |-> "sushi"] }

\* merge(previous, directive): fields present in the directive overwrite,
\* absent fields carry over, dietary tags are unioned on addition and
\* subtracted on removal, unknown fields are ignored.
Merge(previous, directive) ==
    IF directive.kind = "clear" THEN DefaultFilterState
    ELSE IF directive.kind = "remove"
    THEN IF directive.field = "dietary" /\ directive.tag # Absent
         THEN [previous EXCEPT !.dietary = @ \ {directive.tag}]
         ELSE [previous EXCEPT ![directive.field] = DefaultFilterState[directive.field]]
    ELSE [f \in FilterFields |->
            IF f \in DOMAIN directive.fields
            THEN IF f = "dietary"
                 THEN previous.dietary \cup directive.fields.dietary
                 ELSE directive.fields[f]
            ELSE previous[f]]

\* The fields that differ between two filter states.
ChangeSet(previous, next) == {f \in FilterFields : previous[f] # next[f]}

NoCache == [exists |-> FALSE]

NeedsFetchOnAnyChange(cache, changed, request) ==
    \/ changed # {}
    \/ ~cache.exists
    \/ cache.location # request.location
    \/ Normalize(cache.query) # Normalize(request.query)

\* DecideFetch: a radius or location change, no cache, or another query intent.
NeedsFetch(cache, changed, request) ==
    \/ "radius" \in changed
    \/ ~cache.exists
    \/ cache.location # request.location
    \/ Normalize(cache.query) # Normalize(request.query)

PassesIgnoringDietary(v, filters) ==
    /\ filters.cuisine = Absent \/ Lower(v.cuisine_type) = Lower(filters.cuisine)
    /\ filters.price_level = 0 \/ v.price_level <= filters.price_level
    /\ filters.min_rating = 0 \/ v.rating >= filters.min_rating
    /\ v.distance <= filters.radius

\* The filtering predicate.
Passes(v, filters) ==
    /\ filters.cuisine = Absent \/ Lower(v.cuisine_type) = Lower(filters.cuisine)
    /\ filters.price_level = 0 \/ v.price_level <= filters.price_level
    /\ filters.min_rating = 0 \/ v.rating >= filters.min_rating
    /\ v.distance <= filters.radius
    /\ filters.dietary \subseteq v.dietary

\* The weights of text match, rating and inverse distance in the relevance.
Weights == <<8, 2, 1>>

MaxDistance == 10

Relevance(v) ==
    Weights[1] * v.text_match + Weights[2] * v.rating
        + Weights[3] * (MaxDistance - v.distance)

\* a comes before b: by the explicit sort field (rating descending, distance
\* and price ascending), then by relevance, then by identity.
RanksBefore(a, b, sort_by) ==
    LET key(v) == CASE sort_by = "rating" -> 0 - v.rating
                    [] sort_by = "distance" -> v.distance
                    [] sort_by = "price" -> v.price_level
                    [] OTHER -> 0
    IN  \/ key(a) < key(b)
        \/ key(a) = key(b) /\ Relevance(a) > Relevance(b)
        \/ key(a) = key(b) /\ Relevance(a) = Relevance(b) /\ a.id < b.id

RECURSIVE Rank(_, _)
Rank(S, sort_by) ==
    IF S = {} THEN <<>>
    ELSE LET first == CHOOSE v \in S : \A w \in S \ {v} : RanksBefore(v, w, sort_by)
         IN  <<first>> \o Rank(S \ {first}, sort_by)

Truncate(list, cap) == SubSeq(list, 1, IF Len(list) < cap THEN Len(list) ELSE cap)

ApplyCapBeforeFilter(candidates, filters) ==
    SelectSeq(Truncate(Rank(candidates, filters.sort_by), ResultCap),
              LAMBDA v : Passes(v, filters))

\* apply(candidates, filters): filter, rank, then truncate to the cap.
Apply(candidates, filters) ==
    Truncate(Rank({v \in candidates : Passes(v, filters)}, filters.sort_by),
             ResultCap)

VARIABLES
    session,    \* the session: current FilterState, CandidateCache, turns committed
    stage,      \* the stage of the turn that is running, or "Idle"
    turn,       \* the running turn: request, next FilterState, ChangeSet, result
    searches,   \* number of search calls made to the provider
    provided    \* what the last search call returned

pipelineVars == <<session, stage, turn, searches, provided>>

NoTurn == [request |-> [directive |-> NoDirective, location |-> "A", query |-> "pizza"],
           next |-> DefaultFilterState, changed |-> {}, result |-> <<>>]

PipelineInit ==
    /\ session = [filters |-> DefaultFilterState, cache |-> NoCache, committed |-> 0]
    /\ stage = "Idle"
    /\ turn = NoTurn
    /\ searches = 0
    /\ provided = {}

\* run(session, directive, freeTextQuery) is called.
Run(request) ==
    /\ stage = "Idle"
    /\ session.committed < MaxPipelineTurns
    /\ stage' = "MergeFilters"
    /\ turn' = [NoTurn EXCEPT !.request = request]
    /\ UNCHANGED <<session, searches, provided>>

MergeFilters ==
    /\ stage = "MergeFilters"
    /\ LET next == Merge(session.filters, turn.request.directive)
       IN  turn' = [turn EXCEPT !.next = next,
                                !.changed = ChangeSet(session.filters, next)]
    /\ stage' = "DecideFetch"
    /\ UNCHANGED <<session, searches, provided>>

DecideFetch ==
    /\ stage = "DecideFetch"
    /\ stage' = IF NeedsFetch(session.cache, turn.changed, turn.request)
                THEN "Fetch" ELSE "Filter"
    /\ UNCHANGED <<session, turn, searches, provided>>

\* The candidate set a fetch puts in the cache: all that the search returned.
CacheOf(found, filters) == found

\* Fetch: one search call; the cache is replaced wholesale.
Fetch(found) ==
    /\ stage = "Fetch"
    /\ found \in SearchResults
    /\ searches' = searches + 1
    /\ provided' = found
    /\ session' = [session EXCEPT !.cache =
                      [exists |-> TRUE,
                       candidates |-> CacheOf(found, turn.next),
                       query |-> turn.request.query,
                       location |-> turn.request.location,
                       radius |-> turn.next.radius]]
    /\ stage' = "Filter"
    /\ UNCHANGED turn

Filter ==
    /\ stage = "Filter"
    /\ turn' = [turn EXCEPT !.result = Apply(session.cache.candidates, turn.next)]
    /\ stage' = "Compose"
    /\ UNCHANGED <<session, searches, provided>>

\* Compose: the response text is the language model's; the list is the result.
Compose ==
    /\ stage = "Compose"
    /\ stage' = "Commit"
    /\ UNCHANGED <<session, turn, searches, provided>>

\* Commit: the next FilterState becomes current.
Commit ==
    /\ stage = "Commit"
    /\ session' = [session EXCEPT !.filters = turn.next,
                                  !.committed = @ + 1]
    /\ stage' = "Idle"
    /\ turn' = [NoTurn EXCEPT !.result = turn.result]
    /\ UNCHANGED <<searches, provided>>

(***************************************************************************)
(* The map (GoogleMap): the component's effects and the script of the      *)
(* document it puts into an iframe.  Coordinates are counted in units of   *)
(* 0.0001 degree, the tolerance selectRestaurant matches positions with.   *)
(***************************************************************************)
MaxDocuments == 2
MaxSelections == 3

Tolerance == 1

Abs(x) == IF x < 0 THEN -x ELSE x

\* Two restaurants of one building, and one elsewhere.
VenueA == [name |-> "a", latitude |-> 0, longitude |-> 0]
VenueB == [name |-> "b", latitude |-> 0, longitude |-> 0]
VenueC == [name |-> "c", latitude |-> 4, longitude |-> 7]

MapVenues == {VenueA, VenueB, VenueC}

\* null, where a restaurant can stand.
NoSelection == [name |-> Null]

\* The lists the page passes as the restaurants prop.
VenueLists == { <<>>, <<VenueC>>, <<VenueA, VenueC>>, <<VenueA, VenueB, VenueC>> }

VARIABLES
    restaurants,          \* prop of GoogleMap: the list the document was made from
    selectedRestaurant,   \* prop of GoogleMap
    timer,                \* the setTimeout of the selectedRestaurant effect
    scriptLoaded,         \* document: its first script has run, the listener is on
    mapReady,             \* document: let mapReady
    pendingSelection,     \* document: let pendingSelection
    restaurantMarkers,    \* document: let restaurantMarkers
    opened,               \* history: the info windows selectRestaurant opened
    received,             \* history: the selections the document's listener got
    documents,            \* number of documents made so far
    selections            \* number of selections made so far

mapVars == <<restaurants, selectedRestaurant, timer, scriptLoaded, mapReady,
             pendingSelection, restaurantMarkers, opened, received, documents,
             selections>>

MapInit ==
    /\ restaurants = <<>>
    /\ selectedRestaurant = NoSelection
    /\ timer = NoSelection
    /\ scriptLoaded = FALSE
    /\ mapReady = FALSE
    /\ pendingSelection = NoSelection
    /\ restaurantMarkers = <<>>
    /\ opened = <<>>
    /\ received = <<>>
    /\ documents = 1
    /\ selections = 0

\* The marker position test of selectRestaurant.
Matches(marker, selected) ==
    /\ Abs(marker.latitude - selected.latitude) < Tolerance
    /\ Abs(marker.longitude - selected.longitude) < Tolerance

\* The loop of selectRestaurant: the first marker at the selected position,
\* 0 when there is none.
FoundMarker(markers, selected) ==
    IF \E i \in DOMAIN markers : Matches(markers[i], selected)
    THEN CHOOSE i \in DOMAIN markers :
            /\ Matches(markers[i], selected)
            /\ \A j \in 1..(i - 1) : ~Matches(markers[j], selected)
    ELSE 0

SelectRestaurantKeepsFirst(selected, ready, markers, pending, log) ==
    IF ~ready \/ Len(markers) = 0
    THEN [pendingSelection |-> IF pending = NoSelection THEN selected ELSE pending,
          opened |-> log]
    ELSE [pendingSelection |-> pending,
          opened |-> IF FoundMarker(markers, selected) # 0
                     THEN Append(log, [restaurant |-> selected,
                                       marker |-> FoundMarker(markers, selected)])
                     ELSE log]

\* selectRestaurant(selectedRestaurant) of the document: what it leaves in
\* pendingSelection and which info windows have been opened after it.
SelectRestaurant(selected, ready, markers, pending, log) ==
    IF ~ready \/ Len(markers) = 0
    THEN [pendingSelection |-> selected, opened |-> log]
    ELSE [pendingSelection |-> pending,
          opened |-> IF FoundMarker(markers, selected) # 0
                     THEN Append(log, [restaurant |-> selected,
                                       marker |-> FoundMarker(markers, selected)])
                     ELSE log]

\* The effect on [restaurants, userLocation]: a new iframe with a new document.
\* The selectedRestaurant effect does not run again.
RenderMap(list) ==
    /\ list # restaurants
    /\ documents < MaxDocuments
    /\ documents' = documents + 1
    /\ restaurants' = list
    /\ scriptLoaded' = FALSE
    /\ mapReady' = FALSE
    /\ pendingSelection' = NoSelection
    /\ restaurantMarkers' = <<>>
    /\ opened' = <<>>
    /\ received' = <<>>
    /\ UNCHANGED <<selectedRestaurant, timer, selections>>

\* The browser runs the first script of the document.
LoadDocument ==
    /\ ~scriptLoaded
    /\ scriptLoaded' = TRUE
    /\ UNCHANGED <<restaurants, selectedRestaurant, timer, mapReady, pendingSelection,
                   restaurantMarkers, opened, received, documents, selections>>

\* arePropsEqual on selectedRestaurant: the component renders again, and its
\* effect runs, only for a selection at another position.
PositionEqual(prevSelected, nextSelected) ==
    IF prevSelected = NoSelection \/ nextSelected = NoSelection
    THEN prevSelected = nextSelected
    ELSE /\ prevSelected.latitude = nextSelected.latitude
         /\ prevSelected.longitude = nextSelected.longitude

\* setSelectedRestaurant(null) of the page: the cleanup of the effect clears
\* the timer, and no new one is set.
Deselect ==
    /\ selectedRestaurant # NoSelection
    /\ selectedRestaurant' = NoSelection
    /\ timer' = NoSelection
    /\ UNCHANGED <<restaurants, scriptLoaded, mapReady, pendingSelection,
                   restaurantMarkers, opened, received, documents, selections>>

\* onPress of a card, then the effect on [selectedRestaurant]: the timer of
\* the previous run is cleared and a new one is set.
SelectCard(venue) ==
    /\ ~PositionEqual(selectedRestaurant, venue)
    /\ selections < MaxSelections
    /\ selections' = selections + 1
    /\ selectedRestaurant' = venue
    /\ timer' = venue
    /\ UNCHANGED <<restaurants, scriptLoaded, mapReady, pendingSelection,
                   restaurantMarkers, opened, received, documents>>

\* The timer posts SELECT_RESTAURANT to the iframe of the moment; a document
\* whose script has not run yet has no listener for it.
PostSelection ==
    /\ timer # NoSelection
    /\ timer' = NoSelection
    /\ IF scriptLoaded
       THEN LET after == SelectRestaurant(timer, mapReady, restaurantMarkers,
                                          pendingSelection, opened)
            IN  /\ pendingSelection' = after.pendingSelection
                /\ opened' = after.opened
                /\ received' = Append(received, timer)
       ELSE UNCHANGED <<pendingSelection, opened, received>>
    /\ UNCHANGED <<restaurants, selectedRestaurant, scriptLoaded, mapReady,
                   restaurantMarkers, documents, selections>>

\* initMap, the callback of the Maps script: one marker per restaurant, then
\* mapReady = true and the pending selection, if any.
InitMap ==
    /\ scriptLoaded
    /\ ~mapReady
    /\ restaurantMarkers' = restaurants
    /\ mapReady' = TRUE
    /\ opened' = IF pendingSelection # NoSelection
                 THEN SelectRestaurant(pendingSelection, TRUE, restaurants,
                                       pendingSelection, opened).opened
                 ELSE opened
    /\ pendingSelection' = NoSelection
    /\ UNCHANGED <<restaurants, selectedRestaurant, timer, scriptLoaded, received,
                   documents, selections>>

(***************************************************************************)
(* Persistence of the conversations (web): the value under                 *)
(* 'restaurant_finder_conversations' in localStorage, the effect that      *)
(* writes it and the load that a new page starts from.  A stored value is  *)
(* nothing, or a text; a text is empty, not JSON, or the JSON of a value.  *)
(***************************************************************************)
MaxFailedWrites == 1
MaxReloads == 1

Missing == [kind |-> "missing"]

\* JSON.stringify of one conversation: a key whose value is undefined is left out.
JsonObject(conversation) ==
    IF conversation.sessionId = Undefined
    THEN [messages |-> conversation.messages,
          restaurants |-> conversation.restaurants]
    ELSE [messages |-> conversation.messages,
          restaurants |-> conversation.restaurants,
          sessionId |-> conversation.sessionId]

\* JSON.stringify(conversations).
Stringify(list) ==
    [kind |-> "json",
     value |-> [type |-> "array",
                items |-> [i \in DOMAIN list |-> JsonObject(list[i])]]]

\* What the page reads from a parsed conversation: a key that is left out
\* reads as undefined.
FromJsonObject(object) ==
    [messages |-> object.messages,
     restaurants |-> object.restaurants,
     sessionId |-> IF "sessionId" \in DOMAIN object THEN object.sessionId
                   ELSE Undefined]

\* Values under the key that the page did not write: none (first visit, site
\* data cleared), the empty text, a text that is not JSON, the JSON of an
\* object and of an empty array.
ForeignValues ==
    { Missing,
      [kind |-> "empty"],
      [kind |-> "garbage"],
      [kind |-> "json", value |-> [type |-> "object"]],
      [kind |-> "json", value |-> [type |-> "array", items |-> <<>>]] }

VARIABLES
    stored,        \* localStorage.getItem(STORAGE_KEY)
    failedWrites,  \* number of setItem calls that threw
    reloads        \* number of page loads after the first

storageVars == <<stored, failedWrites, reloads>>

\* After the first mount on a first visit: the effect has written the
\* initial list.
StorageInit ==
    /\ stored = Stringify(InitialConversations)
    /\ failedWrites = 0
    /\ reloads = 0

LoadConversationsAcceptingEmpty(value) ==
    IF /\ value.kind = "json"
       /\ value.value.type = "array"
    THEN [i \in DOMAIN value.value.items |-> FromJsonObject(value.value.items[i])]
    ELSE <<EmptyConversation>>

\* loadConversationsFromStorage.
LoadConversationsFromStorage(value) ==
    IF /\ value.kind = "json"
       /\ value.value.type = "array"
       /\ Len(value.value.items) > 0
    THEN [i \in DOMAIN value.value.items |-> FromJsonObject(value.value.items[i])]
    ELSE <<EmptyConversation>>

\* saveConversationsToStorage: setItem writes the text, or throws (quota,
\* storage refused) and the catch only logs.
SaveConversationsToStorage(list) ==
    \/ /\ stored' = Stringify(list)
       /\ UNCHANGED failedWrites
    \/ /\ failedWrites < MaxFailedWrites
       /\ failedWrites' = failedWrites + 1
       /\ UNCHANGED stored

\* useEffect(() => saveConversationsToStorage(conversations), [conversations]),
\* run after the render that follows a step.
SaveEffect ==
    /\ IF conversations' # conversations
       THEN SaveConversationsToStorage(conversations')
       ELSE UNCHANGED <<stored, failedWrites>>
    /\ UNCHANGED reloads

\* The page is loaded again: every useState starts over, the turns in flight
\* are gone with the old page, and the effect runs on mount.
Reload ==
    /\ reloads < MaxReloads
    /\ reloads' = reloads + 1
    /\ conversations' = LoadConversationsFromStorage(stored)
    /\ currentConversationIndex' = 1
    /\ inputText' = ""
    /\ loading' = FALSE
    /\ activeFilters' = InitialActiveFilters
    /\ isProcessingVoice' = FALSE
    /\ inflight' = {}
    /\ filtersSetBy' = "init"
    /\ SaveConversationsToStorage(conversations')
    /\ UNCHANGED <<sent, nextSid>>

\* Something else than the page sets or removes the value while no turn is
\* in flight.
ForeignWrite(value) ==
    /\ inflight = {}
    /\ stored # value
    /\ stored' = value
    /\ UNCHANGED <<failedWrites, reloads>>
    /\ UNCHANGED vars

(***************************************************************************)
(* Voice playback of a response: playTextAsVoice and stopAudioPlayback,    *)
(* the audio elements they make, and the events of those elements.  Audio  *)
(* elements are numbered in the order they are made; 0 stands for null.    *)
(* One call of playTextAsVoice is under way at a time: it is awaited by    *)
(* handleSend before loading is set back.                                  *)
(***************************************************************************)
MaxAudios == 4

NoAudio == 0

VARIABLES
    isPlayingAudio,   \* useState
    audioRef,         \* useRef: audioRef.current
    audible,          \* the audio elements that are playing
    speaking,         \* where the call of playTextAsVoice is: idle, tts, play
    callAudio,        \* const audio of the call under way
    audios,           \* number of audio elements made so far
    objectUrls        \* the object URLs of textToSpeech that are not revoked

audioVars == <<isPlayingAudio, audioRef, audible, speaking, callAudio, audios,
               objectUrls>>

AudioInit ==
    /\ isPlayingAudio = FALSE
    /\ audioRef = NoAudio
    /\ audible = {}
    /\ speaking = "idle"
    /\ callAudio = NoAudio
    /\ audios = 0
    /\ objectUrls = {}

\* HTMLMediaElement.pause() on audioRef.current.
Pause(playing, audio) == playing \ {audio}

\* playTextAsVoice up to its first await.
PlayTextAsVoice(text, voiceMode) ==
    /\ speaking = "idle"
    /\ audios < MaxAudios
    /\ IF text = "" \/ ~voiceMode
       THEN UNCHANGED audioVars
       ELSE /\ isPlayingAudio' = TRUE
            /\ audible' = IF audioRef # NoAudio THEN Pause(audible, audioRef)
                          ELSE audible
            /\ audioRef' = NoAudio
            /\ speaking' = "tts"
            /\ UNCHANGED <<callAudio, audios, objectUrls>>

\* textToSpeech resolved: new Audio(audioUrl), audioRef.current = audio, the
\* handlers are set and play() is called.
TextToSpeechResolves ==
    /\ speaking = "tts"
    /\ audios' = audios + 1
    /\ callAudio' = audios + 1
    /\ audioRef' = audios + 1
    /\ speaking' = "play"
    /\ objectUrls' = objectUrls \cup {audios + 1}
    /\ UNCHANGED <<isPlayingAudio, audible>>

\* textToSpeech threw: the catch.
TextToSpeechThrows ==
    /\ speaking = "tts"
    /\ isPlayingAudio' = FALSE
    /\ speaking' = "idle"
    /\ UNCHANGED <<audioRef, audible, callAudio, audios, objectUrls>>

\* audio.play() resolved: the element plays.
PlayResolves ==
    /\ speaking = "play"
    /\ audioRef = callAudio
    /\ audible' = audible \cup {callAudio}
    /\ speaking' = "idle"
    /\ callAudio' = NoAudio
    /\ UNCHANGED <<isPlayingAudio, audioRef, audios, objectUrls>>

\* audio.play() rejected and no error event follows (playback not allowed
\* by the browser, or interrupted by a pause): the catch.
PlayRejects ==
    /\ speaking = "play"
    /\ isPlayingAudio' = FALSE
    /\ speaking' = "idle"
    /\ callAudio' = NoAudio
    /\ UNCHANGED <<audioRef, audible, audios, objectUrls>>

\* The element cannot load its source: audio.onerror, and play() rejects.
AudioError ==
    /\ speaking = "play"
    /\ audioRef = callAudio
    /\ isPlayingAudio' = FALSE
    /\ audioRef' = NoAudio
    /\ speaking' = "idle"
    /\ callAudio' = NoAudio
    /\ UNCHANGED <<audible, audios, objectUrls>>

\* audio.onended of an element that is playing.
AudioEnded(audio) ==
    /\ audio \in audible
    /\ audible' = audible \ {audio}
    /\ isPlayingAudio' = FALSE
    /\ audioRef' = NoAudio
    /\ objectUrls' = objectUrls \ {audio}
    /\ UNCHANGED <<speaking, callAudio, audios>>

\* stopAudioPlayback; its button is rendered while isPlayingAudio.
StopAudioPlayback ==
    /\ isPlayingAudio
    /\ IF audioRef # NoAudio
       THEN /\ audible' = Pause(audible, audioRef)
            /\ audioRef' = NoAudio
            /\ isPlayingAudio' = FALSE
       ELSE UNCHANGED <<audible, audioRef, isPlayingAudio>>
    /\ UNCHANGED <<speaking, callAudio, audios, objectUrls>>

(***************************************************************************)
(* Authentication: App with its auth gate, AuthNavigator, and the login    *)
(* and sign-up forms.  Texts typed into the forms are sequences of         *)
(* characters.  A form that is not rendered holds its initial state.       *)
(***************************************************************************)
MaxAuthCalls == 2

MinPasswordLength == 6

NoUser == "null"

NoCall == "none"

\* What is typed as an email: nothing, a blank, no dot after the @, an
\* address, an address after a blank, an address with nothing before the dot.
Emails ==
    { <<>>,
      <<" ">>,
      <<"a", "@", "b">>,
      <<"a", "@", "b", ".", "c">>,
      <<" ", "a", "@", "b", ".", "c">>,
      <<"a", "@", ".", "c">> }

\* What is typed as a password: nothing, five characters, six, six others.
Passwords ==
    { <<>>,
      <<"p", "w", "1", "2", "3">>,
      <<"p", "w", "1", "2", "3", "4">>,
      <<"p", "w", "1", "2", "3", "5">> }

\* !email.trim()
IsBlank(text) == \A i \in DOMAIN text : text[i] = " "

\* validateEmail: /^[^\s@]+@[^\s@]+\.[^\s@]+$/
ValidateEmail(text) ==
    \E at \in DOMAIN text, dot \in DOMAIN text :
        /\ text[at] = "@"
        /\ text[dot] = "."
        /\ 1 < at
        /\ at + 1 < dot
        /\ dot < Len(text)
        /\ \A i \in DOMAIN text \ {at} : text[i] \notin {" ", "@"}

\* getFirebaseErrorMessage of the two forms, for a code each has a message
\* for and for one it has none for.
ErrorCodes == {"auth/invalid-credential", "auth/email-already-in-use", "auth/internal-error"}

LoginFirebaseErrorMessage(code) ==
    IF code = "auth/invalid-credential" THEN "Invalid email or password"
    ELSE "Authentication failed. Please try again"

SignupFirebaseErrorMessage(code) ==
    IF code = "auth/email-already-in-use"
    THEN "An account already exists with this email"
    ELSE "Failed to create account. Please try again"

VARIABLES
    user,             \* App: useState
    appLoading,       \* App: useState loading
    currentScreen,    \* AuthNavigator: useState
    email,            \* form: useState
    password,         \* form: useState
    confirmPassword,  \* SignupPage: useState
    formLoading,      \* form: useState loading
    error,            \* form: useState
    pendingCall,      \* the Firebase call the form awaits
    authCalls,        \* number of Firebase sign-in / sign-up calls made
    logins            \* number of calls of onLogin / onSignup

formVars == <<currentScreen, email, password, confirmPassword, formLoading, error>>

authVars == <<user, appLoading, currentScreen, email, password, confirmPassword,
              formLoading, error, pendingCall, authCalls, logins>>

AuthInit ==
    /\ user = NoUser
    /\ appLoading = TRUE
    /\ currentScreen = "login"
    /\ email = <<>>
    /\ password = <<>>
    /\ confirmPassword = <<>>
    /\ formLoading = FALSE
    /\ error = ""
    /\ pendingCall = NoCall
    /\ authCalls = 0
    /\ logins = 0

RenderedIgnoringLoading(isLoading, currentUser) ==
    IF currentUser # NoUser THEN "finder" ELSE "auth"

\* What App renders: the activity indicator, RestaurantFinderPage or AuthNavigator.
Rendered(isLoading, currentUser) ==
    IF isLoading THEN "indicator"
    ELSE IF currentUser # NoUser THEN "finder"
    ELSE "auth"

\* The form AuthNavigator shows, when App renders AuthNavigator.
FormShown(screen) == Rendered(appLoading, user) = "auth" /\ currentScreen = screen

\* A form is mounted anew.
FieldsReset ==
    /\ email' = <<>>
    /\ password' = <<>>
    /\ confirmPassword' = <<>>
    /\ formLoading' = FALSE
    /\ error' = ""

\* AuthNavigator and its form are mounted anew: every useState starts over.
FormsReset ==
    /\ currentScreen' = "login"
    /\ FieldsReset

\* The callback of onAuthStateChanged: the initial auth state, and a change
\* of it that the forms of this page did not make.
AuthStateChanged(firebaseUser) ==
    /\ pendingCall = NoCall
    /\ appLoading \/ firebaseUser # user
    /\ user' = firebaseUser
    /\ appLoading' = FALSE
    /\ FormsReset
    /\ UNCHANGED <<pendingCall, authCalls, logins>>

\* handleLogout: signOut resolves, or throws and is logged.
HandleLogout(signedOut) ==
    /\ Rendered(appLoading, user) = "finder"
    /\ user' = IF signedOut THEN NoUser ELSE user
    /\ UNCHANGED <<appLoading, formVars, pendingCall, authCalls, logins>>

\* navigateToLogin, navigateToSignup, navigateToForgotPassword: the links
\* are disabled while the form is loading; the new form starts empty.
Navigate(screen) ==
    /\ Rendered(appLoading, user) = "auth"
    /\ ~formLoading
    /\ screen # currentScreen
    /\ currentScreen = "login" \/ screen = "login"
    /\ FieldsReset
    /\ currentScreen' = screen
    /\ UNCHANGED <<user, appLoading, pendingCall, authCalls, logins>>

\* onChangeText of the email, password and confirmation inputs.
SetEmail(text) ==
    /\ FormShown("login") \/ FormShown("signup")
    /\ ~formLoading
    /\ email' = text
    /\ error' = ""
    /\ UNCHANGED <<user, appLoading, currentScreen, password, confirmPassword,
                   formLoading, pendingCall, authCalls, logins>>

SetPassword(text) ==
    /\ FormShown("login") \/ FormShown("signup")
    /\ ~formLoading
    /\ password' = text
    /\ error' = ""
    /\ UNCHANGED <<user, appLoading, currentScreen, email, confirmPassword,
                   formLoading, pendingCall, authCalls, logins>>

SetConfirmPassword(text) ==
    /\ FormShown("signup")
    /\ ~formLoading
    /\ confirmPassword' = text
    /\ error' = ""
    /\ UNCHANGED <<user, appLoading, currentScreen, email, password,
                   formLoading, pendingCall, authCalls, logins>>

LoginErrorLengthFirst(mail, pass) ==
    IF IsBlank(mail) THEN "Please enter your email"
    ELSE IF ~ValidateEmail(mail) THEN "Please enter a valid email address"
    ELSE IF Len(pass) < MinPasswordLength THEN "Password must be at least 6 characters"
    ELSE IF pass = <<>> THEN "Please enter your password"
    ELSE ""

\* The checks of handleLogin in their order: the message of the first that
\* fails, "" when none does.
LoginError(mail, pass) ==
    IF IsBlank(mail) THEN "Please enter your email"
    ELSE IF ~ValidateEmail(mail) THEN "Please enter a valid email address"
    ELSE IF pass = <<>> THEN "Please enter your password"
    ELSE IF Len(pass) < MinPasswordLength THEN "Password must be at least 6 characters"
    ELSE ""

\* The checks of handleSignUp in their order.
SignupError(mail, pass, confirm) ==
    IF IsBlank(mail) THEN "Please enter your email"
    ELSE IF ~ValidateEmail(mail) THEN "Please enter a valid email address"
    ELSE IF pass = <<>> THEN "Please enter your password"
    ELSE IF Len(pass) < MinPasswordLength THEN "Password must be at least 6 characters"
    ELSE IF pass # confirm THEN "Passwords do not match"
    ELSE ""

\* What both handlers do with the outcome of their checks, up to the await.
Submit(message, call) ==
    /\ IF message # ""
       THEN /\ error' = message
            /\ UNCHANGED <<formLoading, pendingCall, authCalls>>
       ELSE /\ authCalls < MaxAuthCalls
            /\ error' = ""
            /\ formLoading' = TRUE
            /\ pendingCall' = call
            /\ authCalls' = authCalls + 1
    /\ UNCHANGED <<user, appLoading, currentScreen, email, password,
                   confirmPassword, logins>>

\* LoginPage.handleLogin to its await; button and inputs are disabled while loading.
HandleLogin ==
    /\ FormShown("login")
    /\ ~formLoading
    /\ Submit(LoginError(email, password), "signInWithEmailAndPassword")

\* SignupPage.handleSignUp to its await.
HandleSignUp ==
    /\ FormShown("signup")
    /\ ~formLoading
    /\ Submit(SignupError(email, password, confirmPassword),
              "createUserWithEmailAndPassword")

\* The Firebase call resolved: onLogin / onSignup is App.handleLogin, the
\* auth state listener reports the same user, and AuthNavigator is unmounted.
CallResolves(firebaseUser) ==
    /\ pendingCall # NoCall
    /\ pendingCall' = NoCall
    /\ user' = firebaseUser
    /\ logins' = logins + 1
    /\ FormsReset
    /\ UNCHANGED <<appLoading, authCalls>>

\* The Firebase call rejected: the catch and the finally of the handler.
CallRejects(code) ==
    /\ pendingCall # NoCall
    /\ pendingCall' = NoCall
    /\ error' = IF pendingCall = "signInWithEmailAndPassword"
                THEN LoginFirebaseErrorMessage(code)
                ELSE SignupFirebaseErrorMessage(code)
    /\ formLoading' = FALSE
    /\ UNCHANGED <<user, appLoading, currentScreen, email, password,
                   confirmPassword, authCalls, logins>>

\* What stands still while the client moves, and while the pipeline does.
besideClient == <<pipelineVars, mapVars, storageVars, audioVars, authVars>>

besidePipeline == <<vars, mapVars, storageVars, audioVars, authVars>>

besideMap == <<vars, pipelineVars, storageVars, audioVars, authVars>>

besidePage == <<pipelineVars, mapVars, audioVars, authVars>>

besideAudio == <<vars, pipelineVars, mapVars, storageVars, authVars>>

besideAuth == <<vars, pipelineVars, mapVars, storageVars, audioVars>>

allVars == <<vars, pipelineVars, mapVars, storageVars, audioVars, authVars>>

\* The client: the backend's answers are drawn from Responses, the pipeline
\* stands still.
Next ==
    \/ SubmitEditing /\ UNCHANGED besideClient
    \/ \E t \in Texts : ChangeText(t) /\ UNCHANGED besideClient
    \/ \E r \in inflight, resp \in Responses :
           RespondSuccess(r, resp) /\ UNCHANGED besideClient
    \/ \E r \in inflight, resp \in Responses :
           RespondFailure(r, resp) /\ UNCHANGED besideClient
    \/ \E r \in inflight : FinishVoice(r) /\ UNCHANGED besideClient
    \/ HandleNewConversation /\ UNCHANGED besideClient
    \/ HandlePreviousConversation /\ UNCHANGED besideClient
    \/ HandleNextConversation /\ UNCHANGED besideClient
    \/ HandleDeleteConversation /\ UNCHANGED besideClient
    \/ \E f \in Fields, v \in {Null, "vegan", "gf"} :
           HandleRemoveFilter(f, v) /\ UNCHANGED besideClient
    \/ HandleClearAllFilters /\ UNCHANGED besideClient
    \/ StopRecording /\ UNCHANGED besideClient
    \/ \E t \in Texts : ProcessVoiceInput(t) /\ UNCHANGED besideClient

\* The client as constructed, the pipeline idle.
SpecInit == Init /\ PipelineInit /\ MapInit /\ StorageInit /\ AudioInit /\ AuthInit

Spec == SpecInit /\ [][Next]_allVars

\* The pipeline of one session, turn after turn; the client stands still.
PipelineNext ==
    \/ \E request \in TurnRequests : Run(request) /\ UNCHANGED besidePipeline
    \/ MergeFilters /\ UNCHANGED besidePipeline
    \/ DecideFetch /\ UNCHANGED besidePipeline
    \/ \E found \in SearchResults : Fetch(found) /\ UNCHANGED besidePipeline
    \/ Filter /\ UNCHANGED besidePipeline
    \/ Compose /\ UNCHANGED besidePipeline
    \/ Commit /\ UNCHANGED besidePipeline

SpecPipeline == SpecInit /\ [][PipelineNext]_allVars

\* The map alone: the page gives it lists and selections.
MapNext ==
    \/ \E list \in VenueLists : RenderMap(list) /\ UNCHANGED besideMap
    \/ LoadDocument /\ UNCHANGED besideMap
    \/ \E venue \in MapVenues : SelectCard(venue) /\ UNCHANGED besideMap
    \/ Deselect /\ UNCHANGED besideMap
    \/ PostSelection /\ UNCHANGED besideMap
    \/ InitMap /\ UNCHANGED besideMap

SpecMap == SpecInit /\ [][MapNext]_allVars

\* The answers that leave the filters as they are.
StorageResponses ==
    {resp \in Responses : resp.kind = "success" => ~resp.filter_state.present}

\* The page with its storage: the steps that lead to a change of the
\* conversations, each with the effect that follows its render.
StorageNext ==
    \/ \E t \in Texts : ChangeText(t) /\ SaveEffect /\ UNCHANGED besidePage
    \/ SubmitEditing /\ SaveEffect /\ UNCHANGED besidePage
    \/ \E r \in inflight, resp \in StorageResponses :
           RespondSuccess(r, resp) /\ SaveEffect /\ UNCHANGED besidePage
    \/ \E r \in inflight, resp \in StorageResponses :
           RespondFailure(r, resp) /\ SaveEffect /\ UNCHANGED besidePage
    \/ \E r \in inflight : FinishVoice(r) /\ SaveEffect /\ UNCHANGED besidePage
    \/ HandleNewConversation /\ SaveEffect /\ UNCHANGED besidePage
    \/ HandleDeleteConversation /\ SaveEffect /\ UNCHANGED besidePage
    \/ Reload /\ UNCHANGED besidePage
    \/ \E value \in ForeignValues : ForeignWrite(value) /\ UNCHANGED besidePage

SpecStorage == SpecInit /\ [][StorageNext]_allVars

\* Voice playback alone: the responses to speak are given.
AudioNext ==
    \/ \E text \in {"", "response"}, voiceMode \in BOOLEAN :
           PlayTextAsVoice(text, voiceMode) /\ UNCHANGED besideAudio
    \/ TextToSpeechResolves /\ UNCHANGED besideAudio
    \/ TextToSpeechThrows /\ UNCHANGED besideAudio
    \/ PlayResolves /\ UNCHANGED besideAudio
    \/ PlayRejects /\ UNCHANGED besideAudio
    \/ AudioError /\ UNCHANGED besideAudio
    \/ \E audio \in audible : AudioEnded(audio) /\ UNCHANGED besideAudio
    \/ StopAudioPlayback /\ UNCHANGED besideAudio

SpecAudio == SpecInit /\ [][AudioNext]_allVars

\* App, AuthNavigator and the forms; Firebase answers as it likes.
AuthNext ==
    \/ \E firebaseUser \in {NoUser, "u1"} :
           AuthStateChanged(firebaseUser) /\ UNCHANGED besideAuth
    \/ \E signedOut \in BOOLEAN : HandleLogout(signedOut) /\ UNCHANGED besideAuth
    \/ \E screen \in {"login", "signup", "forgot_password"} :
           Navigate(screen) /\ UNCHANGED besideAuth
    \/ \E text \in Emails : SetEmail(text) /\ UNCHANGED besideAuth
    \/ \E text \in Passwords : SetPassword(text) /\ UNCHANGED besideAuth
    \/ \E text \in Passwords : SetConfirmPassword(text) /\ UNCHANGED besideAuth
    \/ HandleLogin /\ UNCHANGED besideAuth
    \/ HandleSignUp /\ UNCHANGED besideAuth
    \/ CallResolves("u1") /\ UNCHANGED besideAuth
    \/ \E code \in ErrorCodes : CallRejects(code) /\ UNCHANGED besideAuth

SpecAuth == SpecInit /\ [][AuthNext]_allVars

(***************************************************************************)
(* The filter handlers alone, started from every filter state that a first *)
(* committed turn can leave: the response of that turn carried any filters *)
(* object over the values below.                                           *)
(***************************************************************************)
AnyFilters ==
    [cuisine : {Null, Undefined, "thai"},
     price_level : {Null, Undefined, "2"},
     rating : {Null, Undefined, "4"},
     distance : {Null, Undefined, "5", "10"},
     dietary : {[present |-> FALSE]}
               \cup {[present |-> TRUE, tags |-> T] : T \in SUBSET {"vegan", "gf"}},
     sort_by : {Null, Undefined, "rating"}]

FirstResponse(f) ==
    [kind |-> "success", restaurants |-> [present |-> FALSE],
     filter_state |-> [present |-> TRUE, filters |-> f]]

InitFilters ==
    /\ \E f \in AnyFilters :
         /\ activeFilters = FiltersFromResponse(f)
         /\ conversations =
                CommitSuccess(<<[EmptyConversation EXCEPT
                                   !.messages = <<UserMessage("pizza")>>]>>,
                              1, FirstResponse(f), "1")
    /\ currentConversationIndex = 1
    /\ inputText = ""
    /\ loading = FALSE
    /\ isProcessingVoice = FALSE
    /\ inflight = {}
    /\ sent = 1
    /\ nextSid = 2
    /\ filtersSetBy = "response"

NextFilters ==
    \/ \E t \in Texts : ChangeText(t) /\ UNCHANGED besideClient
    \/ \E f \in Fields, v \in {Null, "vegan", "gf"} :
           HandleRemoveFilter(f, v) /\ UNCHANGED besideClient
    \/ HandleClearAllFilters /\ UNCHANGED besideClient

SpecFiltersInit == InitFilters /\ PipelineInit /\ MapInit /\ StorageInit /\ AudioInit /\ AuthInit

SpecFilters == SpecFiltersInit /\ [][NextFilters]_allVars

(***************************************************************************)
(* Properties                                                              *)
(***************************************************************************)
RespondsFailure(r) == \E resp \in Responses : RespondFailure(r, resp)

RemovesFilter(f, v) == HandleRemoveFilter(f, v)

\* The roles of a turn history alternate: user, assistant, user, ...
Alternates(msgs) ==
    \A i \in DOMAIN msgs : msgs[i].role = IF i % 2 = 1 THEN "user" ELSE "assistant"

\* C1: a session has at most one turn in flight; while a turn waits for its
\* response its conversation is exactly what the turn saw when it was submitted
\* plus its own user message, with the session id it sent; and every turn of a
\* session is answered before the session's next turn is added.
C1_OneTurnInFlightPerSession ==
    /\ \A r1 \in inflight, r2 \in inflight : r1.idx = r2.idx => r1 = r2
    /\ \A r \in inflight :
         r.pc = "fetch" =>
            /\ r.idx \in DOMAIN conversations
            /\ conversations[r.idx].sessionId = r.session_id
            /\ conversations[r.idx].restaurants = r.conversation.restaurants
            /\ conversations[r.idx].messages =
                   Append(r.conversation.messages, UserMessage(r.query))
    /\ \A c \in DOMAIN conversations : Alternates(conversations[c].messages)

\* A second turn of a session is in flight after its first turn was answered.
C1_Witness ==
    \E r \in inflight :
        /\ r.pc = "fetch"
        /\ Len(r.conversation.messages) = 2
        /\ r.conversation.messages[2].role = "assistant"

\* C2 as stated: a turn in flight for one session does not block a submission
\* in another session: with another conversation on screen, a query would pass
\* the guard of handleSend.
C2_OtherSessionNotBlocked ==
    \A r \in inflight :
        r.idx # currentConversationIndex => CanSend("pizza", loading)

\* C2 as amended: while a turn is in flight for any session, loading is set and
\* no text passes the guard of handleSend, whichever conversation is on screen;
\* at most one turn is in flight over all sessions.
C2_OneTurnInFlightOverall ==
    /\ Cardinality(inflight) <= 1
    /\ inflight # {} => loading /\ \A t \in Texts : ~CanSend(t, loading)

\* A turn of one conversation is in flight while another one is on screen.
C2_Witness ==
    \E r \in inflight : r.idx # currentConversationIndex /\ loading

\* C3 as stated: when a turn fails, its conversation and the filter state are
\* what they were when the turn was submitted.
C3_FailureRestoresSession ==
    [][\A r \in inflight :
          RespondsFailure(r) =>
             /\ conversations'[r.idx] = r.conversation
             /\ activeFilters' = r.active_filters]_vars

\* C3 as amended: when a turn fails, its conversation keeps the session id and
\* the restaurants it had at submission, its turn history is the history at
\* submission followed by the user's message and one assistant message without
\* restaurants, every other conversation is untouched, and the failure does not
\* change activeFilters.
C3_FailureKeepsSessionAddsMessages ==
    [][\A r \in inflight :
          RespondsFailure(r) =>
             LET before == r.conversation
                 after == conversations'[r.idx]
                 n == Len(before.messages)
             IN  /\ after.sessionId = before.sessionId
                 /\ after.restaurants = before.restaurants
                 /\ Len(after.messages) = n + 2
                 /\ SubSeq(after.messages, 1, n) = before.messages
                 /\ after.messages[n + 1] = UserMessage(r.query)
                 /\ after.messages[n + 2].role = "assistant"
                 /\ after.messages[n + 2].restaurants = <<>>
                 /\ \A c \in DOMAIN conversations :
                        c # r.idx => conversations'[c] = conversations[c]
                 /\ Len(conversations') = Len(conversations)
                 /\ activeFilters' = activeFilters]_vars

\* A turn of a session that holds a session id has failed.
C3_Witness ==
    \E c \in DOMAIN conversations :
        LET msgs == conversations[c].messages
        IN  /\ conversations[c].sessionId # Null
            /\ Len(msgs) = 4
            /\ msgs[4].content \in {"Error", "Error connecting to server"}
            /\ ~loading

\* C4: when a turn fails, the filter state is the one that was active before the
\* turn's directive, which is the one the turn captured and sent.  (Stated for
\* turns that captured a filter state with a distance, so that C9 plays no part.)
C4_FailureKeepsPriorFilters ==
    [][\A r \in inflight :
          RespondsFailure(r) /\ Truthy(r.active_filters.distance)
             => activeFilters' = r.active_filters]_vars

\* Number of places of a list that hold v.
Count(v, list) == Cardinality({i \in DOMAIN list : list[i] = v})

\* Number of (message, place) pairs of a turn history that hold v.
Returned(v, msgs) ==
    Cardinality(UNION {{<<i, j>> : j \in {k \in DOMAIN msgs[i].restaurants :
                                             msgs[i].restaurants[k] = v}} :
                       i \in DOMAIN msgs})

Venues == {"v1", "v2"}

\* C5 as stated: the list shown on the map holds each venue at most once.
C5_NoDuplicateVenue ==
    \A c \in DOMAIN conversations, v \in Venues :
        Count(v, AllRestaurants(conversations[c].messages)) <= 1

\* C5 as amended: the list shown on the map holds a venue once for every
\* occurrence of it in a message of the conversation: nothing is de-duplicated.
C5_OneEntryPerOccurrence ==
    \A c \in DOMAIN conversations, v \in Venues :
        LET msgs == conversations[c].messages
        IN  Count(v, AllRestaurants(msgs)) = Returned(v, msgs)

\* Two turns of a conversation returned the same venue.
C5_Witness ==
    \E c \in DOMAIN conversations :
        Count("v1", AllRestaurants(conversations[c].messages)) = 2

\* C6: removing a filter sends a request, and the request carries the filter
\* state without the removed filter.  (Stated for filter states with a distance,
\* so that C9 plays no part.)
C6_RemovalSendsUpdatedFilters ==
    [][\A f \in Fields, v \in {Null, "vegan", "gf"} :
          RemovesFilter(f, v) /\ Truthy(activeFilters.distance) =>
             \E r \in inflight' \ inflight : r.active_filters = activeFilters']_vars

\* C7: removing a filter puts the named field back to its default (a dietary tag
\* leaves the set) and leaves every other field as it was.
C7_RemovalChangesOnlyNamedField ==
    [][\A f \in Fields, v \in {Null, "vegan", "gf"} :
          RemovesFilter(f, v) =>
             /\ \A g \in Fields \ {f} : activeFilters'[g] = activeFilters[g]
             /\ f = "dietary" => activeFilters'.dietary = activeFilters.dietary \ {v}
             /\ f = "distance" => activeFilters'.distance = "5"
             /\ f \notin {"dietary", "distance"} => activeFilters'[f] = Null]_vars

\* One of two dietary tags and the cuisine were removed; the rest stands.
C7_Witness ==
    /\ filtersSetBy = "remove"
    /\ activeFilters = [cuisine |-> Null, price_level |-> "2", rating |-> "4",
                        distance |-> "10", dietary |-> {"gf"}, sort_by |-> "rating"]

\* C8: clearing all filters sets, in the one step of the handler, every field to
\* its default.
C8_ClearAllResetsEveryField ==
    [][HandleClearAllFilters =>
          /\ activeFilters'.cuisine = Null
          /\ activeFilters'.price_level = Null
          /\ activeFilters'.rating = Null
          /\ activeFilters'.distance = "5"
          /\ activeFilters'.dietary = {}
          /\ activeFilters'.sort_by = Null]_vars

\* All filters were cleared from a state in which every field was set; the turn
\* that was submitted with it still carries that state.
C8_Witness ==
    /\ filtersSetBy = "clear"
    /\ activeFilters.distance = "5" /\ activeFilters.dietary = {}
    /\ \E r \in inflight :
          r.active_filters = [cuisine |-> "thai", price_level |-> "2", rating |-> "4",
                              distance |-> "10", dietary |-> {"vegan", "gf"},
                              sort_by |-> "rating"]

\* C9: the distance of the filter state always has a value.
C9_DistanceHasValue == Truthy(activeFilters.distance)

\* C10: a turn committed in one session leaves the filter state of the session
\* that is on screen, which that session's next turn sends, as it was.  (Stated
\* for responses that carry a distance, so that C9 plays no part.)
C10_CommitElsewhereKeepsFilters ==
    [][\A r \in inflight, resp \in Responses :
          /\ RespondSuccess(r, resp)
          /\ r.idx # currentConversationIndex
          /\ Truthy(activeFilters'.distance)
          => activeFilters' = activeFilters]_vars

RespondsSuccess(r) == \E resp \in Responses : RespondSuccess(r, resp)

\* C11: a request carries the session id stored in the conversation it is sent
\* from, which is null until a turn of that conversation succeeds; a successful
\* response stores the id it returns in the issuing conversation and nowhere
\* else; a failed turn, a submission and a navigation leave every stored id as
\* it was; a new conversation starts with a null id; and no two conversations
\* hold the same id, so no request carries an id issued to another conversation.
C11_SessionIdRoundTrip ==
    /\ [](/\ \A r \in inflight :
               r.pc = "fetch" => r.session_id = conversations[r.idx].sessionId
          /\ \A c \in DOMAIN conversations :
               conversations[c].sessionId # Null =>
                  \E i \in DOMAIN conversations[c].messages :
                      conversations[c].messages[i].content = "response"
          /\ \A c1 \in DOMAIN conversations, c2 \in DOMAIN conversations :
               c1 # c2 /\ conversations[c1].sessionId # Null =>
                  conversations[c1].sessionId # conversations[c2].sessionId)
    /\ [][/\ \A r \in inflight, resp \in Responses :
               RespondSuccess(r, resp) =>
                  /\ conversations'[r.idx].sessionId = IssueSessionId(r.session_id)
                  /\ r.session_id # Null =>
                        conversations'[r.idx].sessionId = r.session_id
                  /\ \A c \in DOMAIN conversations :
                        c # r.idx =>
                           conversations'[c].sessionId = conversations[c].sessionId
          /\ \A r \in {q \in inflight' \ inflight : q.pc = "fetch"} :
               /\ r.idx = currentConversationIndex
               /\ r.session_id = conversations[currentConversationIndex].sessionId
               /\ r.conversation.messages = <<>> => r.session_id = Null
          /\ (~HandleDeleteConversation /\ \A r \in inflight : ~RespondsSuccess(r)) =>
               /\ Len(conversations') >= Len(conversations)
               /\ \A c \in DOMAIN conversations :
                     conversations'[c].sessionId = conversations[c].sessionId
               /\ \A c \in DOMAIN conversations' \ DOMAIN conversations :
                     conversations'[c].sessionId = Null]_vars

\* The second turn of a conversation is in flight with the session id that the
\* conversation's first, successful turn was given.
C11_Witness ==
    \E r \in inflight :
        /\ r.pc = "fetch"
        /\ r.session_id = "1"
        /\ Len(r.conversation.messages) >= 2
        /\ conversations[r.idx].sessionId = "1"

\* msgs is the beginning of msgs2.
IsPrefix(msgs, msgs2) ==
    /\ Len(msgs) <= Len(msgs2)
    /\ SubSeq(msgs2, 1, Len(msgs)) = msgs

\* C12: in every step other than delete conversation, every conversation is
\* still in the list at its place, and its turn list is its old turn list,
\* every turn unchanged, followed by the turns the step appended (at most one).
C12_TurnsOnlyAppended ==
    [][~HandleDeleteConversation =>
          \A c \in DOMAIN conversations :
             /\ c \in DOMAIN conversations'
             /\ IsPrefix(conversations[c].messages, conversations'[c].messages)
             /\ Len(conversations'[c].messages) <= Len(conversations[c].messages) + 1]_vars

\* A conversation holds two answered turns, the first with restaurants, and
\* another conversation was created after it.
C12_Witness ==
    /\ Len(conversations) = 2
    /\ Len(conversations[1].messages) = 4
    /\ conversations[1].messages[2].restaurants # <<>>
    /\ conversations[1].messages[4].role = "assistant"

\* The steps of the client that are not the arrival of an answer (of the
\* backend, of the network layer, of the speech service): the user's events,
\* and any timer the page would set.  The page sets none.
StepWithoutAnswer ==
    \/ SubmitEditing
    \/ \E t \in Texts : ChangeText(t)
    \/ HandleNewConversation
    \/ HandlePreviousConversation
    \/ HandleNextConversation
    \/ HandleDeleteConversation
    \/ \E f \in Fields, v \in {Null, "vegan", "gf"} : HandleRemoveFilter(f, v)
    \/ HandleClearAllFilters
    \/ StopRecording
    \/ \E t \in Texts : ProcessVoiceInput(t)

\* C13: a turn in flight is bounded by a timeout of its own: whatever the
\* backend does, a step that ends the turn without an answer (the timeout
\* firing) is pending, so that loading ends even if no answer ever comes.
C13_TurnEndsWithoutAnswer ==
    \A r \in inflight :
        ENABLED (StepWithoutAnswer /\ UNCHANGED besideClient /\ r \notin inflight')

PureFilterFields == {"cuisine", "price_level", "min_rating", "dietary", "sort_by"}

\* C14: with a cache, a change set within the filter and sort fields, and the
\* location and query intent of the cached fetch, DecideFetch goes straight to
\* Filter; no search call is made and the cache is not changed by any stage
\* but Fetch, which a turn enters from DecideFetch only; a changed radius or a
\* location other than the cache's sends DecideFetch to Fetch.
C14_PureFilterChangeReusesCache ==
    [][/\ ( /\ stage = "DecideFetch"
            /\ session.cache.exists
            /\ turn.changed \subseteq PureFilterFields
            /\ turn.request.location = session.cache.location
            /\ Normalize(turn.request.query) = Normalize(session.cache.query) )
          => stage' = "Filter"
       /\ ( /\ stage = "DecideFetch"
            /\ \/ "radius" \in turn.changed
               \/ session.cache.exists
                  /\ turn.request.location # session.cache.location )
          => stage' = "Fetch"
       /\ stage # "Fetch" =>
             /\ searches' = searches
             /\ session'.cache = session.cache
             /\ stage' = "Fetch" => stage = "DecideFetch"]_pipelineVars

\* The second turn changed the price level only and is filtered from the cache
\* of the first turn's fetch.
C14_Witness ==
    /\ stage = "Filter"
    /\ session.committed = 1
    /\ searches = 1
    /\ turn.changed = {"price_level"}
    /\ Cardinality(session.cache.candidates) = 4

\* C15: for every candidate set and the filter state of the turn, apply returns
\* records of the candidate set only, each once, and each satisfies every
\* filter field that is present.
C15_ApplyIsSubsetAndSatisfiesFilters ==
    \A S \in SUBSET ProviderVenues :
        LET res == Apply(S, turn.next)
            f == turn.next
        IN  \A i \in DOMAIN res :
               /\ res[i] \in S
               /\ \A j \in DOMAIN res : i # j => res[i] # res[j]
               /\ f.cuisine # Absent =>
                     Lower(res[i].cuisine_type) = Lower(f.cuisine)
               /\ f.price_level # 0 => res[i].price_level <= f.price_level
               /\ f.min_rating # 0 => res[i].rating >= f.min_rating
               /\ res[i].distance <= f.radius
               /\ \A tag \in f.dietary : tag \in res[i].dietary

\* A turn with a cuisine and a dietary tag returned the one matching record of
\* four candidates, whose cuisine is written in another case.
C15_Witness ==
    /\ stage = "Compose"
    /\ turn.next.cuisine = "THAI"
    /\ turn.next.dietary = {"vegan"}
    /\ Cardinality(session.cache.candidates) = 4
    /\ Len(turn.result) = 1
    /\ turn.result[1].cuisine_type = "Thai"

\* C16: the returned list has at most ResultCap records; a candidate that
\* passes the filters is missing from it only when at least ResultCap other
\* passing candidates rank before it; and the cache holds all that the last
\* search returned.
C16_CapAfterFilterAndRank ==
    /\ session.cache.exists => session.cache.candidates = provided
    /\ stage \in {"Compose", "Commit"} =>
          LET C == session.cache.candidates
              f == turn.next
              res == turn.result
              returned == {res[i] : i \in DOMAIN res}
          IN  /\ Len(res) <= ResultCap
              /\ \A v \in C :
                    Passes(v, f) /\ v \notin returned =>
                       Cardinality({w \in C \ {v} :
                                       /\ Passes(w, f)
                                       /\ RanksBefore(w, v, f.sort_by)}) >= ResultCap

\* Three of four cached candidates pass, the first in rank does not, and the
\* list holds the two passing ones that rank first.
C16_Witness ==
    /\ stage = "Commit"
    /\ Cardinality(session.cache.candidates) = 4
    /\ Cardinality({v \in session.cache.candidates : Passes(v, turn.next)}) = 3
    /\ Len(turn.result) = ResultCap
    /\ \E v \in session.cache.candidates :
          /\ ~Passes(v, turn.next)
          /\ \A w \in session.cache.candidates \ {v} :
                RanksBefore(v, w, turn.next.sort_by)

\* The directives of the page: a chip's removal <<field, tag>>, or clear all.
ClearAll == <<"all", Null>>

PageDirectives ==
    {<<f, Null>> : f \in Fields \ {"dietary"}}
    \cup {<<"dietary", tag>> : tag \in {"vegan", "gf"}}
    \cup {ClearAll}

\* What the handler of a directive would make of a filter state.
ApplyDirective(d, filters) ==
    IF d = ClearAll THEN ClearedFilters ELSE RemoveFromFilters(filters, d[1], d[2])

\* The net effect of d1 followed by d2, field by field: the fields put back to
\* their default, and the dietary tags taken out.
NetEffect(d1, d2) ==
    LET resets(d) == IF d = ClearAll THEN Fields
                     ELSE IF d[1] = "dietary" THEN {} ELSE {d[1]}
        tags(d) == IF d # ClearAll /\ d[1] = "dietary" THEN {d[2]} ELSE {}
    IN  [reset |-> resets(d1) \cup resets(d2), tags |-> tags(d1) \cup tags(d2)]

ApplyNetEffect(net, filters) ==
    [g \in Fields |->
        IF g \in net.reset THEN InitialActiveFilters[g]
        ELSE IF g = "dietary" THEN filters.dietary \ net.tags
        ELSE filters[g]]

C18_CardAndMarkerNumbersAgree ==
    \A c \in DOMAIN conversations :
        LET msgs == conversations[c].messages
            markers == AllRestaurants(msgs)
            cards == UNION {{<<m, k>> : k \in DOMAIN Cards(msgs[m])} : m \in DOMAIN msgs}
        IN  /\ \A p \in cards :
                  \E i \in DOMAIN markers :
                      /\ MarkerNumber(i) = CardNumber(msgs, p[1], p[2])
                      /\ markers[i] = Cards(msgs[p[1]])[p[2]]
            /\ \A i \in DOMAIN markers :
                  Cardinality({p \in cards :
                                  CardNumber(msgs, p[1], p[2]) = MarkerNumber(i)}) = 1

\* The second answer of a conversation shows one card, numbered 3, after the
\* two cards of the first answer.
C18_Witness ==
    \E c \in DOMAIN conversations :
        LET msgs == conversations[c].messages
        IN  /\ Len(msgs) = 4
            /\ Len(Cards(msgs[2])) = 2
            /\ Len(Cards(msgs[4])) = 1
            /\ CardNumber(msgs, 4, 1) = 3

\* C19: whatever conversation is on screen when a response arrives, the
\* conversation the turn was submitted from (still at its place, as the turn
\* left it) gets the assistant or error message; on success it also gets the
\* restaurants and the session id of the response; every other conversation is
\* untouched; and no conversation can be deleted while a turn is in flight.
C19_CommitToIssuingConversation ==
    [][/\ \A r \in inflight, resp \in Responses :
             (RespondSuccess(r, resp) \/ RespondFailure(r, resp)) =>
                LET issuing == conversations[r.idx]
                    after == conversations'[r.idx]
                IN  /\ issuing.messages =
                           Append(r.conversation.messages, UserMessage(r.query))
                    /\ Len(after.messages) = Len(issuing.messages) + 1
                    /\ IsPrefix(issuing.messages, after.messages)
                    /\ after.messages[Len(after.messages)].role = "assistant"
                    /\ resp.kind = "success" =>
                          /\ after.messages[Len(after.messages)] = AssistantMessage(resp)
                          /\ after.sessionId = IssueSessionId(r.session_id)
                          /\ resp.restaurants.present =>
                                after.restaurants = resp.restaurants.list
                    /\ resp.kind # "success" =>
                          /\ after.messages[Len(after.messages)] = ErrorMessage(resp)
                          /\ after.sessionId = issuing.sessionId
                          /\ after.restaurants = issuing.restaurants
                    /\ Len(conversations') = Len(conversations)
                    /\ \A c \in DOMAIN conversations :
                          c # r.idx => conversations'[c] = conversations[c]
       /\ inflight # {} => ~HandleDeleteConversation]_vars

\* The first conversation holds the answer of its turn with the restaurants and
\* the session id of the response, and a second, empty conversation is on screen.
C19_Witness ==
    /\ Len(conversations) = 2
    /\ currentConversationIndex = 2
    /\ conversations[2].messages = <<>>
    /\ conversations[2].sessionId = Null
    /\ Len(conversations[1].messages) = 2
    /\ conversations[1].sessionId = "1"
    /\ conversations[1].restaurants = <<"v1", "v2">>
    /\ inflight = {}

\* C20: the conversation list is never empty and currentConversationIndex is a
\* place of it (counted from 1 here: 1 <= index <= length); deleting the only
\* conversation leaves one empty conversation with a null session id, deleting
\* one of several removes exactly the one on screen.
C20_IndexValid ==
    /\ [](/\ Len(conversations) >= 1
          /\ currentConversationIndex \in 1..Len(conversations)
          /\ \A r \in inflight : r.idx \in 1..Len(conversations))
    /\ [][HandleDeleteConversation =>
             IF Len(conversations) = 1
             THEN /\ conversations' =
                        <<[messages |-> <<>>, restaurants |-> <<>>, sessionId |-> Null]>>
                  /\ currentConversationIndex' = 1
             ELSE /\ Len(conversations') = Len(conversations) - 1
                  /\ \A c \in DOMAIN conversations' :
                        conversations'[c] =
                            conversations[IF c < currentConversationIndex
                                          THEN c ELSE c + 1]]_vars

\* After a turn succeeded, its conversation was deleted: one empty conversation
\* is left and is on screen.
C20_Witness ==
    /\ sent >= 1
    /\ nextSid = 2
    /\ inflight = {}
    /\ conversations = <<EmptyConversation>>
    /\ currentConversationIndex = 1

\* C21: when the input text is empty or blank, or a turn is loading, a call of
\* handleSend sends no request, appends no message and leaves inputText,
\* loading and conversations as they are.  Called from the text input it
\* changes nothing at all, activeFilters included; called from a chip on
\* screen or from clear all, activeFilters is what that handler set before
\* the call.
C21_BlankOrLoadingSubmissionIsNoOp ==
    [][(inputText \in {"", " "} \/ loading) =>
          /\ SubmitEditing => UNCHANGED vars
          /\ \A chip \in Chips :
                RemovesFilter(chip[1], chip[2]) =>
                   /\ UNCHANGED <<inputText, loading, conversations, inflight, sent>>
                   /\ activeFilters' =
                         RemoveFromFilters(activeFilters, chip[1], chip[2])
          /\ HandleClearAllFilters =>
                /\ UNCHANGED <<inputText, loading, conversations, inflight, sent>>
                /\ activeFilters' = ClearedFilters]_vars

\* While a turn was loading a transcript filled the input, and both chips the
\* turn's predecessor had set were removed: the one request in flight is still
\* the only one, and the text is still in the input.
C21_Witness ==
    /\ loading
    /\ inputText = "pizza"
    /\ filtersSetBy = "remove"
    /\ activeFilters.cuisine = Null
    /\ activeFilters.dietary = {}
    /\ Cardinality(inflight) = 1
    /\ \A r \in inflight : r.active_filters.cuisine = "thai"

Reloads == Reload /\ UNCHANGED besidePage

\* C23 as stated: after every change of the conversations the stored value
\* is the text of the current conversations.
C23_StoredEqualsCurrent ==
    [][conversations' # conversations => stored' = Stringify(conversations')]_allVars

IsNonEmptyArrayText(value) ==
    /\ value.kind = "json"
    /\ value.value.type = "array"
    /\ value.value.items # <<>>

\* C23, amended: after a change of the conversations the stored value is the
\* text of the current conversations, or the write threw and it is the value
\* of before.  A reload starts from the stored list when the value is the
\* text of a non-empty array, and from one empty conversation with a null
\* session id otherwise; from the text of a list the page wrote it starts
\* from that list.
C23_StoredEqualsCurrentUnlessWriteFails ==
    /\ [][conversations' # conversations =>
            \/ stored' = Stringify(conversations')
            \/ stored' = stored /\ failedWrites' = failedWrites + 1]_allVars
    /\ [][Reloads =>
            /\ IsNonEmptyArrayText(stored) =>
                  /\ Len(conversations') = Len(stored.value.items)
                  /\ \A i \in DOMAIN conversations' :
                        conversations'[i] = FromJsonObject(stored.value.items[i])
            /\ ~IsNonEmptyArrayText(stored) =>
                  conversations' = <<[messages |-> <<>>, restaurants |-> <<>>,
                                      sessionId |-> Null]>>
            /\ stored = Stringify(conversations) => conversations' = conversations]_allVars

\* A page that was loaded again shows a conversation with an answered turn,
\* read from what the page before it had stored.
C23_Witness ==
    /\ reloads = 1
    /\ sent = 1
    /\ inflight = {}
    /\ Len(conversations[1].messages) = 2
    /\ stored = Stringify(conversations)

\* C24: at most one response audio plays at a time, and after playback has
\* ended, has failed (the element cannot load, or play() is rejected) or was
\* stopped by the user, isPlayingAudio is false and audioRef.current is null.
C24_OneAudioAndNoneRetained ==
    /\ [](Cardinality(audible) <= 1)
    /\ [][(\/ \E audio \in audible : AudioEnded(audio)
           \/ AudioError
           \/ PlayRejects
           \/ StopAudioPlayback /\ audioRef # NoAudio)
          => ~isPlayingAudio' /\ audioRef' = NoAudio]_audioVars

\* The client-side checks of the login form on what is typed, in the order
\* of the claim, each with its message; the sign-up form has one more.
LoginChecks ==
    << [fails |-> IsBlank(email), message |-> "Please enter your email"],
       [fails |-> ~ValidateEmail(email),
        message |-> "Please enter a valid email address"],
       [fails |-> password = <<>>, message |-> "Please enter your password"],
       [fails |-> Len(password) < 6,
        message |-> "Password must be at least 6 characters"] >>

SignupChecks ==
    LoginChecks \o << [fails |-> password # confirmPassword,
                       message |-> "Passwords do not match"] >>

\* A submission of a form with these checks: when one fails, the message of
\* the first that fails is the error, no call is made, loading stays false
\* and onLogin / onSignup is not called; when none fails, the call is made.
SubmissionChecked(checks) ==
    IF \E i \in DOMAIN checks : checks[i].fails
    THEN LET first == CHOOSE i \in DOMAIN checks :
                         /\ checks[i].fails
                         /\ \A j \in 1..(i - 1) : ~checks[j].fails
         IN  /\ error' = checks[first].message
             /\ authCalls' = authCalls
             /\ pendingCall' = NoCall
             /\ formLoading' = FALSE
             /\ logins' = logins
             /\ user' = user
    ELSE /\ authCalls' = authCalls + 1
         /\ pendingCall' # NoCall

\* C25: in the login and the sign-up form the Firebase call is made only
\* when every client-side check passes; otherwise the message of the first
\* failing check is set as the error, no call is made, loading stays false
\* and onLogin / onSignup is not called.
C25_CallOnlyAfterChecks ==
    [][/\ HandleLogin => SubmissionChecked(LoginChecks)
       /\ HandleSignUp => SubmissionChecked(SignupChecks)
       /\ authCalls' # authCalls =>
             \A i \in DOMAIN LoginChecks : ~LoginChecks[i].fails]_authVars

\* The sign-up form was submitted with an address, a password of six
\* characters and another confirmation: the error is set and nothing was called.
C25_Witness ==
    /\ FormShown("signup")
    /\ ValidateEmail(email)
    /\ Len(password) = 6
    /\ password # confirmPassword
    /\ error = "Passwords do not match"
    /\ authCalls = 0
    /\ logins = 0
    /\ ~formLoading

\* C26: the finder page is rendered only when the initial auth state is
\* resolved (loading false) and user is not null; while it is unresolved
\* neither the finder page nor an auth screen is rendered; and whenever user
\* is null after resolution the auth screens are rendered.
C26_AuthGate ==
    /\ Rendered(appLoading, user) = "finder" => ~appLoading /\ user # NoUser
    /\ appLoading => Rendered(appLoading, user) \notin {"finder", "auth"}
    /\ ~appLoading /\ user = NoUser => Rendered(appLoading, user) = "auth"

\* The finder page is rendered for a user who signed in through a form.
C26_Witness ==
    /\ Rendered(appLoading, user) = "finder"
    /\ logins = 1
    /\ user = "u1"

====
